---- MODULE Spec2Model ----
(***************************************************************************)
(* A model of the rinha tree-walking interpreter: the AST of src/ast.rs,    *)
(* the scope chain of src/env.rs and the evaluator of src/eval.rs.          *)
(*                                                                         *)
(* An environment (Rc<RefCell<Env>>) is modelled as the chain of frames it  *)
(* reaches through its parent links: a sequence of maps, the root first and *)
(* the frame the handle points at last.  The evaluator is a family of       *)
(* recursive operators that thread the machine state st (scope chain,       *)
(* output sink, host status) through every call, as the Rust code threads   *)
(* `env` and the process' stdout.                                           *)
(***************************************************************************)
EXTENDS Integers, Sequences, FiniteSets, TLC

\* ------------------------------------------------------------- bounds ----
\* Direct Env::set calls made on the environment before the evaluation.
MaxSets == 2
\* Nested calls the host stack holds before it is exhausted.
MaxCallDepth == 6
\* Largest argument of the factorial scenario.
MaxN == 4
\* Longest argument list of a call.
MaxArgs == 2

\* ------------------------------------------------------- i32 (ast.rs) ----
I32Max == 2147483647
I32Min == -I32Max - 1
Half == 2^16
Byte == 2^8

\* ------------------------------------------------------------ ast.rs -----
Location(start, end, filename) ==
    [start |-> start, end |-> end, filename |-> filename]

Error(message, full_text, location) ==
    [kind |-> "Error", message |-> message, full_text |-> full_text,
     location |-> location]

If(condition, then, otherwise, location) ==
    [kind |-> "If", condition |-> condition, then |-> then,
     otherwise |-> otherwise, location |-> location]

Let(name, value, next, location) ==
    [kind |-> "Let", name |-> name, value |-> value, next |-> next,
     location |-> location]

Str(value, location) == [kind |-> "Str", value |-> value, location |-> location]

Bool(value, location) == [kind |-> "Bool", value |-> value, location |-> location]

\* ast.rs names this variant Int; the name is taken by the Integers module.
IntTerm(value, location) == [kind |-> "Int", value |-> value, location |-> location]

Binary(lhs, op, rhs, location) ==
    [kind |-> "Binary", lhs |-> lhs, op |-> op, rhs |-> rhs,
     location |-> location]

Call(callee, arguments, location) ==
    [kind |-> "Call", callee |-> callee, arguments |-> arguments,
     location |-> location]

Function(parameters, value, location) ==
    [kind |-> "Function", parameters |-> parameters, value |-> value,
     location |-> location]

\* ast.rs names this variant Print.
PrintTerm(value, location) == [kind |-> "Print", value |-> value, location |-> location]

First(value, location) == [kind |-> "First", value |-> value, location |-> location]

Second(value, location) == [kind |-> "Second", value |-> value, location |-> location]

Tuple(first, second, location) ==
    [kind |-> "Tuple", first |-> first, second |-> second, location |-> location]

\* The struct Var: a name and its location (Let.name, Function.parameters).
Var(text, location) == [text |-> text, location |-> location]

\* The variant Term::Var.
VarTerm(text, location) == [kind |-> "Var", text |-> text, location |-> location]

BinaryOp ==
    {"Add", "Sub", "Mul", "Div", "Rem", "Eq", "Neq", "Lt", "Gt", "Lte", "Gte",
     "And", "Or"}

\* A comparison of locations that holds of any two, for comparison.
location_ignored(a, b) == TRUE

\* #[derive(PartialEq)] on Location: field by field.
LocationEq(a, b) ==
    /\ a.start = b.start
    /\ a.end = b.end
    /\ a.filename = b.filename

\* #[derive(PartialEq)] on Var.
VarEq(a, b) == a.text = b.text /\ LocationEq(a.location, b.location)

\* #[derive(PartialEq)] on Term: the same variant, then the variant's fields.
RECURSIVE TermEq(_, _)
TermEq(a, b) ==
    /\ a.kind = b.kind
    /\ CASE a.kind = "Error" ->
              a.message = b.message /\ a.full_text = b.full_text
         [] a.kind \in {"Int", "Str", "Bool"} -> a.value = b.value
         [] a.kind = "Var" -> a.text = b.text
         [] a.kind = "Call" ->
              /\ TermEq(a.callee, b.callee)
              /\ Len(a.arguments) = Len(b.arguments)
              /\ \A i \in 1..Len(a.arguments) :
                    TermEq(a.arguments[i], b.arguments[i])
         [] a.kind = "Binary" ->
              TermEq(a.lhs, b.lhs) /\ a.op = b.op /\ TermEq(a.rhs, b.rhs)
         [] a.kind = "Function" ->
              /\ Len(a.parameters) = Len(b.parameters)
              /\ \A i \in 1..Len(a.parameters) :
                    VarEq(a.parameters[i], b.parameters[i])
              /\ TermEq(a.value, b.value)
         [] a.kind = "Let" ->
              /\ VarEq(a.name, b.name)
              /\ TermEq(a.value, b.value)
              /\ TermEq(a.next, b.next)
         [] a.kind = "If" ->
              /\ TermEq(a.condition, b.condition)
              /\ TermEq(a.then, b.then)
              /\ TermEq(a.otherwise, b.otherwise)
         [] a.kind \in {"Print", "First", "Second"} -> TermEq(a.value, b.value)
         [] a.kind = "Tuple" ->
              TermEq(a.first, b.first) /\ TermEq(a.second, b.second)
    /\ LocationEq(a.location, b.location)

\* ------------------------------------------------------------ env.rs -----
\* HashMap::new(): the map with no key.
NoVars == <<>>

\* Env::new: no parent, no variable.
EnvNew == <<NoVars>>

\* Env::extend whose new frame hangs off the root frame, not off the
\* environment of the call site.
extend_root(parent) == <<parent[1], NoVars>>

\* Env::extend whose new frame starts as a copy of the caller's frame.
extend_copy(parent) == Append(parent, parent[Len(parent)])

\* Env::extend: a new empty frame whose parent is the given environment.
extend(parent) == Append(parent, NoVars)

\* Env::get: the local frame first, then the parent chain.
RECURSIVE get(_, _)
get(env, name) ==
    IF name \in DOMAIN env[Len(env)]
    THEN [some |-> TRUE, term |-> env[Len(env)][name]]
    ELSE IF Len(env) > 1
         THEN get(SubSeq(env, 1, Len(env) - 1), name)
         ELSE [some |-> FALSE]

\* HashMap::insert on a key that is absent.
Insert(vars, name, term) ==
    [n \in DOMAIN vars \cup {name} |-> IF n = name THEN term ELSE vars[n]]

\* Env::set with HashMap::insert on every call: the last write wins.
set_overwrite(env, name, term) ==
    [env EXCEPT ![Len(env)] = Insert(env[Len(env)], name, term)]

\* An Env::set that writes to the root frame of the chain.
set_root(env, name, term) ==
    IF name \in DOMAIN env[1] THEN env
    ELSE [env EXCEPT ![1] = Insert(env[1], name, term)]

\* Env::set: a name the local frame already holds keeps its term.
set(env, name, term) ==
    IF name \in DOMAIN env[Len(env)]
    THEN env
    ELSE [env EXCEPT ![Len(env)] = Insert(env[Len(env)], name, term)]

\* ------------------------------------------- i32 wrapping arithmetic -----
\* What a primitive hands back: a value, or a host panic.
Returned(v) == [panic |-> FALSE, value |-> v]
Panicked == [panic |-> TRUE]

\* i32::saturating_add in the place of wrapping_add.
saturating_add(a, b) ==
    IF a >= 0 /\ b > I32Max - a THEN Returned(I32Max)
    ELSE IF a < 0 /\ b < I32Min - a THEN Returned(I32Min)
    ELSE Returned(a + b)

\* i32::wrapping_add: the sum modulo 2^32, computed without leaving i32.
wrapping_add(a, b) ==
    IF a >= 0 /\ b > I32Max - a
    THEN Returned((a - I32Max - 1) + (b - I32Max - 1))
    ELSE IF a < 0 /\ b < I32Min - a
         THEN Returned((a + I32Max + 1) + (b + I32Max + 1))
         ELSE Returned(a + b)

\* i32::wrapping_sub.
wrapping_sub(a, b) ==
    IF b < 0 /\ a > I32Max + b
    THEN Returned((a - I32Max - 1) - (b + I32Max + 1))
    ELSE IF b > 0 /\ a < I32Min + b
         THEN Returned((a + I32Max + 1) - (b - I32Max - 1))
         ELSE Returned(a - b)

\* The 16-bit halves of an i32 read as a 32-bit pattern, and back.
Lo(a) == a % Half
Hi(a) == (a \div Half) % Half
FromHalves(h, l) ==
    IF h >= Half \div 2 THEN (h - Half) * Half + l ELSE h * Half + l

\* The low and the high 16 bits of the product of two 16-bit halves.
MulLo16(x, y) == (x * (y % Byte) + Byte * ((x * (y \div Byte)) % Byte)) % Half
MulHi16(x, y) == ((x * (y % Byte)) \div Byte + x * (y \div Byte)) \div Byte

\* i32::wrapping_mul: the low 32 bits of the product.
wrapping_mul(a, b) ==
    Returned(FromHalves(
        (MulHi16(Lo(a), Lo(b)) + MulLo16(Hi(a), Lo(b)) + MulLo16(Lo(a), Hi(b)))
            % Half,
        MulLo16(Lo(a), Lo(b))))

\* The quotient rounded toward zero, for a positive divisor.
TruncDiv(a, b) ==
    IF a >= 0 \/ a % b = 0 THEN a \div b ELSE (a \div b) + 1

\* The remainder with the sign of the dividend, for a positive divisor.
TruncRem(a, b) ==
    IF a >= 0 \/ a % b = 0 THEN a % b ELSE (a % b) - b

\* A total division, for comparison: a zero divisor yields 0.
total_div(a, b) ==
    IF b = 0 THEN Returned(0)
    ELSE IF b > 0 THEN Returned(TruncDiv(a, b))
    ELSE IF b = I32Min THEN Returned(IF a = I32Min THEN 1 ELSE 0)
    ELSE IF a = I32Min /\ b = -1 THEN Returned(I32Min)
    ELSE Returned(-TruncDiv(a, -b))

\* i32::wrapping_div: panics on a zero divisor; MIN / -1 wraps to MIN.
wrapping_div(a, b) ==
    IF b = 0 THEN Panicked
    ELSE IF b > 0 THEN Returned(TruncDiv(a, b))
    ELSE IF b = I32Min THEN Returned(IF a = I32Min THEN 1 ELSE 0)
    ELSE IF a = I32Min /\ b = -1 THEN Returned(I32Min)
    ELSE Returned(-TruncDiv(a, -b))

\* i32::wrapping_rem: panics on a zero divisor; MIN % -1 is 0.
wrapping_rem(a, b) ==
    IF b = 0 THEN Panicked
    ELSE IF b > 0 THEN Returned(TruncRem(a, b))
    ELSE IF b = I32Min THEN Returned(IF a = I32Min THEN 0 ELSE a)
    ELSE Returned(TruncRem(a, -b))

lt(a, b) == Returned(a < b)
gt(a, b) == Returned(a > b)
lte(a, b) == Returned(a <= b)
gte(a, b) == Returned(a >= b)
or(a, b) == Returned(a \/ b)
and(a, b) == Returned(a /\ b)

\* ------------------------------------------------------------ eval.rs ----
\* The machine state the evaluator threads: the scope chain `env` points at,
\* the lines println! has written, whether the host process still runs, the
\* eval_call activations on the host stack, and (for the claims only) the
\* number of Env::extend calls made so far.
Machine(env, out, status, depth, frames) ==
    [env |-> env, out |-> out, status |-> status, depth |-> depth,
     frames |-> frames]

\* An evaluation's outcome: the Term returned and the machine afterwards.
Ret(term, st) == [term |-> term, st |-> st]

\* No Term: the host panicked or ran out of stack below this call.
Aborted == [kind |-> "Aborted"]

Abort(st, why) == Ret(Aborted, [st EXCEPT !.status = why])

\* An error() that builds a new Error also from an Error.
error_fresh(term, message, full_text) ==
    Error(message, full_text, term.location)

\* fn error(term, message, full_text): an Error passes through, any other
\* term gives an Error at the term's location.
error(term, message, full_text) ==
    IF term.kind = "Error" THEN term
    ELSE Error(message, full_text, term.location)

\* format!("{value}") of an i32, a String and a bool.
Display(term) ==
    CASE term.kind = "Int" -> ToString(term.value)
      [] term.kind = "Str" -> term.value
      [] term.kind = "Bool" -> IF term.value THEN "true" ELSE "false"

\* The two counts in the other order, for comparison.
ArityTextSwapped(expected_args, found_args) ==
    "Expected " \o ToString(found_args) \o " arguments, found "
        \o ToString(expected_args)

\* format!("Expected {expected_args} arguments, found {found_args}")
ArityText(expected_args, found_args) ==
    "Expected " \o ToString(expected_args) \o " arguments, found "
        \o ToString(found_args)

\* A println! that writes its line twice.
println_twice(st, line) == [st EXCEPT !.out = Append(Append(@, line), line)]

\* A println! that writes its line before the lines already written.
println_front(st, line) == [st EXCEPT !.out = <<line>> \o @]

\* println!: one more line on the sink.
println(st, line) == [st EXCEPT !.out = Append(@, line)]

\* The `env` of eval_call goes out of scope: the caller's handle remains.
Drop(st) ==
    [st EXCEPT !.env = SubSeq(@, 1, Len(@) - 1), !.depth = @ - 1]

RECURSIVE eval(_, _), eval_if(_, _), eval_call(_, _), bind_pairs(_, _, _, _),
          eval_binary(_, _), eval_eq(_, _), eval_neq(_, _), eval_let(_, _),
          eval_print(_, _), eval_first(_, _), eval_second(_, _),
          eval_tuple(_, _), eval_var(_, _)

\* The $ev of each instantiation of impl_binary_op!.
ev(id, lhs, rhs) ==
    CASE id = "eval_add" -> wrapping_add(lhs, rhs)
      [] id = "eval_sub" -> wrapping_sub(lhs, rhs)
      [] id = "eval_mul" -> wrapping_mul(lhs, rhs)
      [] id = "eval_div" -> wrapping_div(lhs, rhs)
      [] id = "eval_rem" -> wrapping_rem(lhs, rhs)
      [] id = "eval_lt" -> lt(lhs, rhs)
      [] id = "eval_gt" -> gt(lhs, rhs)
      [] id = "eval_lte" -> lte(lhs, rhs)
      [] id = "eval_gte" -> gte(lhs, rhs)
      [] id = "eval_or" -> or(lhs, rhs)
      [] id = "eval_and" -> and(lhs, rhs)

\* A handler body that evaluates both operands before it looks at either.
impl_binary_op_eager(st, term, id, lhsKind, rhsKind, outKind) ==
    LET l == eval(st, term.lhs) IN
    IF l.st.status # "ok" THEN l
    ELSE
    LET r == eval(l.st, term.rhs) IN
    IF r.st.status # "ok" THEN r
    ELSE IF l.term.kind = "Error" THEN Ret(l.term, r.st)
    ELSE IF l.term.kind # lhsKind
    THEN Ret(error(l.term, "Unexpected left operand",
                   "Expected operand of type \"" \o lhsKind \o "\""), r.st)
    ELSE IF r.term.kind = "Error" THEN r
    ELSE IF r.term.kind # rhsKind
    THEN Ret(error(r.term, "Unexpected right operand",
                   "Expected operand of type \"" \o rhsKind \o "\""), r.st)
    ELSE
    LET value == ev(id, l.term.value, r.term.value) IN
    IF value.panic THEN Abort(r.st, "panic")
    ELSE Ret([kind |-> outKind, value |-> value.value,
              location |-> term.location], r.st)

\* macro impl_binary_op!: the body every typed operator handler shares.
impl_binary_op(st, term, id, lhsKind, rhsKind, outKind) ==
    LET l == eval(st, term.lhs) IN
    IF l.st.status # "ok" THEN l
    ELSE IF l.term.kind = "Error" THEN l
    ELSE IF l.term.kind # lhsKind
    THEN Ret(error(l.term, "Unexpected left operand",
                   "Expected operand of type \"" \o lhsKind \o "\""), l.st)
    ELSE
    LET r == eval(l.st, term.rhs) IN
    IF r.st.status # "ok" THEN r
    ELSE IF r.term.kind = "Error" THEN r
    ELSE IF r.term.kind # rhsKind
    THEN Ret(error(r.term, "Unexpected right operand",
                   "Expected operand of type \"" \o rhsKind \o "\""), r.st)
    ELSE
    LET value == ev(id, l.term.value, r.term.value) IN
    IF value.panic THEN Abort(r.st, "panic")
    ELSE Ret([kind |-> outKind, value |-> value.value,
              location |-> term.location], r.st)

eval_add(st, term) ==
    impl_binary_op(st, term, "eval_add", "Int", "Int", "Int")
eval_sub(st, term) ==
    impl_binary_op(st, term, "eval_sub", "Int", "Int", "Int")
eval_mul(st, term) ==
    impl_binary_op(st, term, "eval_mul", "Int", "Int", "Int")
eval_div(st, term) ==
    impl_binary_op(st, term, "eval_div", "Int", "Int", "Int")
eval_rem(st, term) ==
    impl_binary_op(st, term, "eval_rem", "Int", "Int", "Int")
eval_lt(st, term) ==
    impl_binary_op(st, term, "eval_lt", "Int", "Int", "Bool")
eval_gt(st, term) ==
    impl_binary_op(st, term, "eval_gt", "Int", "Int", "Bool")
eval_lte(st, term) ==
    impl_binary_op(st, term, "eval_lte", "Int", "Int", "Bool")
eval_gte(st, term) ==
    impl_binary_op(st, term, "eval_gte", "Int", "Int", "Bool")
\* An or that does not evaluate its right operand after a true left one.
eval_or_short(st, term) ==
    LET l == eval(st, term.lhs) IN
    IF l.st.status = "ok" /\ l.term.kind = "Bool" /\ l.term.value
    THEN Ret(Bool(TRUE, term.location), l.st)
    ELSE impl_binary_op(st, term, "eval_or", "Bool", "Bool", "Bool")

eval_or(st, term) ==
    impl_binary_op(st, term, "eval_or", "Bool", "Bool", "Bool")
eval_and(st, term) ==
    impl_binary_op(st, term, "eval_and", "Bool", "Bool", "Bool")

\* Evaluator::eval
eval(st, term) ==
    CASE term.kind \in {"Int", "Str", "Bool", "Error", "Function"} ->
            Ret(term, st)
      [] term.kind = "If" -> eval_if(st, term)
      [] term.kind = "Let" -> eval_let(st, term)
      [] term.kind = "Var" -> eval_var(st, term)
      [] term.kind = "Call" -> eval_call(st, term)
      [] term.kind = "First" -> eval_first(st, term)
      [] term.kind = "Print" -> eval_print(st, term)
      [] term.kind = "Tuple" -> eval_tuple(st, term)
      [] term.kind = "Binary" -> eval_binary(st, term)
      [] term.kind = "Second" -> eval_second(st, term)

\* Evaluator::eval_if
eval_if(st, term) ==
    LET c == eval(st, term.condition) IN
    IF c.st.status # "ok" THEN c
    ELSE IF c.term.kind = "Bool" /\ c.term.value THEN eval(c.st, term.then)
    ELSE IF c.term.kind = "Bool" /\ ~c.term.value
    THEN eval(c.st, term.otherwise)
    ELSE Ret(error(c.term, "Unexpected term",
                   "Expected condition of type \"Bool\""), c.st)

\* A loop that evaluates each argument on the chain of the call site, the new
\* frame set aside, and binds it afterwards.
bind_pairs_at_call_site(st, arguments, parameters, i) ==
    IF i > Len(arguments) \/ i > Len(parameters) THEN st
    ELSE LET frame == st.env[Len(st.env)]
             value == eval([st EXCEPT !.env = SubSeq(@, 1, Len(@) - 1)],
                           arguments[i])
         IN  IF value.st.status # "ok"
             THEN [value.st EXCEPT !.env = Append(@, frame)]
             ELSE bind_pairs(
                     [value.st EXCEPT
                         !.env = set(Append(@, frame), parameters[i].text,
                                     value.term)],
                     arguments, parameters, i + 1)

\* The loop of eval_call over arguments zipped with parameters: each
\* argument is evaluated in the new frame, then bound there.
bind_pairs(st, arguments, parameters, i) ==
    IF i > Len(arguments) \/ i > Len(parameters) THEN st
    ELSE LET value == eval(st, arguments[i]) IN
         IF value.st.status # "ok" THEN value.st
         ELSE bind_pairs(
                 [value.st EXCEPT
                     !.env = set(@, parameters[i].text, value.term)],
                 arguments, parameters, i + 1)

\* Evaluator::eval_call
eval_call(st, term) ==
    LET f == eval(st, term.callee) IN
    IF f.st.status # "ok" THEN f
    ELSE IF f.term.kind = "Function"
    THEN LET parameters == f.term.parameters
             expected_args == Len(parameters)
             found_args == Len(term.arguments)
         IN  IF expected_args # found_args
             THEN Ret(error(Call(Function(parameters, f.term.value,
                                          f.term.location),
                                 term.arguments, term.location),
                            "Argument count mismatch",
                            ArityText(expected_args, found_args)),
                      f.st)
             ELSE IF f.st.depth >= MaxCallDepth
             THEN Abort(f.st, "stack overflow")
             ELSE LET new == [f.st EXCEPT !.env = extend(@),
                                          !.depth = @ + 1,
                                          !.frames = @ + 1]
                      bound == bind_pairs(new, term.arguments, parameters, 1)
                  IN  IF bound.status # "ok" THEN Ret(Aborted, Drop(bound))
                      ELSE LET body == eval(bound, f.term.value)
                           IN  Ret(body.term, Drop(body.st))
    ELSE Ret(error(f.term, "Unexpected term",
                   "Expected function body or reference"), f.st)

\* Evaluator::eval_binary
eval_binary(st, term) ==
    CASE term.op = "Add" -> eval_add(st, term)
      [] term.op = "Sub" -> eval_sub(st, term)
      [] term.op = "Mul" -> eval_mul(st, term)
      [] term.op = "Div" -> eval_div(st, term)
      [] term.op = "Rem" -> eval_rem(st, term)
      [] term.op = "Eq" -> eval_eq(st, term)
      [] term.op = "Neq" -> eval_neq(st, term)
      [] term.op = "Lt" -> eval_lt(st, term)
      [] term.op = "Gt" -> eval_gt(st, term)
      [] term.op = "Lte" -> eval_lte(st, term)
      [] term.op = "Gte" -> eval_gte(st, term)
      [] term.op = "And" -> eval_and(st, term)
      [] term.op = "Or" -> eval_or(st, term)

\* Evaluator::eval_eq: both operands, left first, then the derived ==.
eval_eq(st, term) ==
    LET l == eval(st, term.lhs) IN
    IF l.st.status # "ok" THEN l
    ELSE LET r == eval(l.st, term.rhs) IN
         IF r.st.status # "ok" THEN r
         ELSE Ret(Bool(TermEq(l.term, r.term), term.location), r.st)

\* Evaluator::eval_neq
eval_neq(st, term) ==
    LET l == eval(st, term.lhs) IN
    IF l.st.status # "ok" THEN l
    ELSE LET r == eval(l.st, term.rhs) IN
         IF r.st.status # "ok" THEN r
         ELSE Ret(Bool(~TermEq(l.term, r.term), term.location), r.st)

\* A Let that stores every name, `_` included, for comparison.
eval_let_storing(st, term) ==
    LET value == eval(st, term.value) IN
    IF value.st.status # "ok" THEN value
    ELSE eval([value.st EXCEPT !.env = set(@, term.name.text, value.term)],
              term.next)

\* Evaluator::eval_let
eval_let(st, term) ==
    LET value == eval(st, term.value)
        name == term.name.text
    IN  IF value.st.status # "ok" THEN value
        ELSE IF name # "_"
        THEN eval([value.st EXCEPT !.env = set(@, name, value.term)],
                  term.next)
        ELSE eval(value.st, term.next)

\* Evaluator::eval_print
eval_print(st, term) ==
    LET t == eval(st, term.value) IN
    IF t.st.status # "ok" THEN t
    ELSE IF t.term.kind = "Error" THEN t
    ELSE IF t.term.kind \in {"Int", "Str", "Bool"}
    THEN Ret(t.term, println(t.st, Display(t.term)))
    ELSE IF t.term.kind = "Function"
    THEN Ret(t.term, println(t.st, "<function>"))
    ELSE Ret(error(t.term, "Unexpected term",
                   "The term is not a first class value"), t.st)

\* Evaluator::eval_first
eval_first(st, term) ==
    LET v == eval(st, term.value) IN
    IF v.st.status # "ok" THEN v
    ELSE IF v.term.kind = "Tuple" THEN eval(v.st, v.term.first)
    ELSE Ret(error(v.term, "Unexpected term",
                   "The first function expects a tuple"), v.st)

\* Evaluator::eval_second
eval_second(st, term) ==
    LET v == eval(st, term.value) IN
    IF v.st.status # "ok" THEN v
    ELSE IF v.term.kind = "Tuple" THEN eval(v.st, v.term.second)
    ELSE Ret(error(v.term, "Unexpected term",
                   "The second function expects a tuple"), v.st)

\* A tuple that gives back the Error of a component, for comparison.
eval_tuple_strict(st, term) ==
    LET first == eval(st, term.first) IN
    IF first.st.status # "ok" \/ first.term.kind = "Error" THEN first
    ELSE LET second == eval(first.st, term.second) IN
         IF second.st.status # "ok" \/ second.term.kind = "Error" THEN second
         ELSE Ret(Tuple(first.term, second.term, term.location), second.st)

\* A tuple that takes the location of its first component.
eval_tuple_at_first(st, term) ==
    LET first == eval(st, term.first) IN
    IF first.st.status # "ok" THEN first
    ELSE LET second == eval(first.st, term.second) IN
         IF second.st.status # "ok" THEN second
         ELSE Ret(Tuple(first.term, second.term, first.term.location),
                  second.st)

\* Evaluator::eval_tuple
eval_tuple(st, term) ==
    LET first == eval(st, term.first) IN
    IF first.st.status # "ok" THEN first
    ELSE LET second == eval(first.st, term.second) IN
         IF second.st.status # "ok" THEN second
         ELSE Ret(Tuple(first.term, second.term, term.location), second.st)

\* Evaluator::eval_var
eval_var(st, term) ==
    LET value == get(st.env, term.text) IN
    IF value.some THEN eval(st, value.term)
    ELSE Ret(error(VarTerm(term.text, term.location), "Undefined variable",
                   "Undefined variable \"" \o term.text \o "\""), st)

\* ------------------------------------------------------ the programs ----
\* A node's location: one offset per node of the source file.
L(n) == Location(n, n + 1, "main.rinha")

\* Sub-expressions the programs are built from: literals (two of them equal
\* up to their location, in start, in end or in filename), an Error, a
\* variable, and terms that print, bind, panic, build a tuple or a function.
Operands ==
    { IntTerm(1, L(10)), IntTerm(1, L(11)), IntTerm(2, L(12)),
      IntTerm(0, L(13)), Bool(TRUE, L(14)), Bool(FALSE, L(15)),
      Str("a", L(16)), Error("boom", "boom text", L(17)),
      VarTerm("x", L(18)),
      PrintTerm(IntTerm(5, L(20)), L(19)),
      Let(Var("y", L(21)), IntTerm(3, L(22)), IntTerm(4, L(23)), L(21)),
      Binary(IntTerm(1, L(25)), "Div", IntTerm(0, L(26)), L(24)),
      Tuple(IntTerm(1, L(28)), IntTerm(2, L(29)), L(27)),
      Function(<<Var("x", L(31))>>, VarTerm("x", L(32)), L(30)),
      IntTerm(1, Location(10, 11, "other.rinha")),
      IntTerm(1, Location(10, 12, "main.rinha")) }

\* lhs op rhs, for every operator.
BinaryPrograms ==
    { Binary(a, op, b, L(1)) : a \in Operands, b \in Operands, op \in BinaryOp }

\* Values at the edges of i32 and around zero.
IntSamples ==
    {I32Min, I32Min + 1, -Half, -7, -2, -1, 0, 1, 2, 7, 46341, I32Max - 1,
     I32Max}

ArithOp == {"Add", "Sub", "Mul", "Div", "Rem"}

\* a op b on two Int literals.
ArithPrograms ==
    { Binary(IntTerm(a, L(2)), op, IntTerm(b, L(3)), L(1)) :
        a \in IntSamples, b \in IntSamples, op \in ArithOp }

LetNames == {"x", "y", "_"}

LetValues ==
    { IntTerm(1, L(40)), IntTerm(2, L(41)),
      PrintTerm(IntTerm(3, L(43)), L(42)) }

\* let n1 = v1; let n2 = v2; n3
LetLet(n1, v1, n2, v2, n3) ==
    Let(Var(n1, L(44)), v1,
        Let(Var(n2, L(46)), v2, VarTerm(n3, L(48)), L(47)),
        L(45))

\* let n1 = v1; n3
LetOne(n1, v1, n3) == Let(Var(n1, L(44)), v1, VarTerm(n3, L(48)), L(45))

\* (fn(_) { let _ = v; _ })(a): `_` as a parameter.
DiscardParam(a, v) ==
    Call(Function(<<Var("_", L(35))>>,
                  Let(Var("_", L(37)), v, VarTerm("_", L(38)), L(36)),
                  L(34)),
         <<a>>, L(33))

LetPrograms ==
    { LetLet(n[1], v[1], n[2], v[2], n[3]) :
        n \in LetNames \X LetNames \X LetNames, v \in LetValues \X LetValues }
    \cup { LetOne(n1, v1, n3) :
             n1 \in LetNames, v1 \in LetValues, n3 \in LetNames }
    \cup { DiscardParam(a, v) : a \in LetValues, v \in LetValues }

\* first((a, b)), second((a, b)), and the projections of a bare operand.
ProjPrograms ==
    { First(Tuple(a, b, L(2)), L(1)) : a \in Operands, b \in Operands }
    \cup { Second(Tuple(a, b, L(2)), L(1)) : a \in Operands, b \in Operands }
    \cup { First(a, L(1)) : a \in Operands }
    \cup { Second(a, L(1)) : a \in Operands }

\* print(a)
PrintPrograms == { PrintTerm(a, L(1)) : a \in Operands }

\* Callees: functions of zero, one and two parameters whose bodies print, a
\* callee that prints before it yields its function, and terms that are no
\* function.
Callees ==
    { Function(<<>>, PrintTerm(IntTerm(6, L(52)), L(51)), L(50)),
      Function(<<Var("x", L(53))>>, PrintTerm(VarTerm("x", L(55)), L(54)),
               L(50)),
      Function(<<Var("x", L(53)), Var("y", L(56))>>,
               Tuple(VarTerm("x", L(58)), VarTerm("y", L(59)), L(57)), L(50)),
      Function(<<Var("x", L(53)), Var("x", L(56))>>, VarTerm("x", L(58)),
               L(50)),
      Let(Var("_", L(95)), PrintTerm(IntTerm(9, L(97)), L(96)),
          Function(<<Var("x", L(53))>>, VarTerm("x", L(55)), L(50)), L(95)),
      VarTerm("f", L(50)),
      IntTerm(1, L(50)),
      Error("boom", "boom text", L(50)) }

ArgTerms ==
    { IntTerm(1, L(60)), IntTerm(2, L(61)),
      PrintTerm(IntTerm(5, L(63)), L(62)),
      VarTerm("x", L(64)),
      Let(Var("y", L(65)), IntTerm(3, L(66)), VarTerm("y", L(67)), L(65)),
      Binary(IntTerm(1, L(69)), "Div", IntTerm(0, L(70)), L(68)) }

\* The argument lists of at most n terms.
RECURSIVE ArgLists(_)
ArgLists(n) ==
    IF n = 0 THEN {<<>>}
    ELSE ArgLists(n - 1)
         \cup { Append(as, a) : as \in { l \in ArgLists(n - 1) : Len(l) = n - 1 },
                                a \in ArgTerms }

CallPrograms ==
    { Call(f, as, L(49)) : f \in Callees, as \in ArgLists(MaxArgs) }

\* let x = a; let f = fn() { x }; let g = fn(x) { f() }; g(b)
Shadow(a, b) ==
    Let(Var("x", L(71)), a,
        Let(Var("f", L(72)),
            Function(<<>>, VarTerm("x", L(74)), L(73)),
            Let(Var("g", L(75)),
                Function(<<Var("x", L(77))>>,
                         Call(VarTerm("f", L(79)), <<>>, L(78)), L(76)),
                Call(VarTerm("g", L(81)), <<b>>, L(80)),
                L(75)),
            L(72)),
        L(71))

\* let mk = fn(p) { fn() { p } }; let h = mk(a); h()
Escape(a) ==
    Let(Var("mk", L(71)),
        Function(<<Var("p", L(73))>>,
                 Function(<<>>, VarTerm("p", L(75)), L(74)), L(72)),
        Let(Var("h", L(76)),
            Call(VarTerm("mk", L(78)), <<a>>, L(77)),
            Call(VarTerm("h", L(80)), <<>>, L(79)),
            L(76)),
        L(71))

\* (fn() { name })(): a free variable read from inside a call.
Free(name) == Call(Function(<<>>, VarTerm(name, L(73)), L(72)), <<>>, L(71))

ScopeValues == {IntTerm(1, L(82)), IntTerm(2, L(83)), Bool(TRUE, L(84))}

ScopePrograms ==
    { Shadow(a, b) : a \in ScopeValues, b \in ScopeValues }
    \cup { Escape(a) : a \in ScopeValues }
    \cup { Free(name) : name \in {"x", "p"} }

\* print(k), one literal per k.
P(k) == PrintTerm(IntTerm(k, L(100 + k)), L(110 + k))

\* let _ = print(1); print(2)
OrderLet == Let(Var("_", L(120)), P(1), P(2), L(120))

\* print(1) op print(2)
OrderBinary(op) == Binary(P(1), op, P(2), L(121))

\* (print(1), print(2))
OrderTuple == Tuple(P(1), P(2), L(122))

\* (let _ = print(1); fn(a, b) { print(4) })(print(2), print(3))
OrderCall ==
    Call(Let(Var("_", L(123)), P(1),
             Function(<<Var("a", L(125)), Var("b", L(126))>>, P(4), L(124)),
             L(123)),
         <<P(2), P(3)>>, L(127))

\* if print(b) { print(1) } else { print(2) }
OrderIf(b) == If(PrintTerm(Bool(b, L(129)), L(128)), P(1), P(2), L(130))

\* print(let _ = print(1); 2)
OrderPrint ==
    PrintTerm(Let(Var("_", L(131)), P(1), IntTerm(2, L(132)), L(131)), L(133))

OrderPrograms ==
    {OrderLet, OrderTuple, OrderCall, OrderPrint}
    \cup { OrderBinary(op) : op \in {"Add", "Eq", "Lt"} }
    \cup { OrderIf(b) : b \in BOOLEAN }

\* Fully reduced terms that are no tuple.
Atoms ==
    { IntTerm(1, L(10)), Str("a", L(16)), Bool(TRUE, L(14)),
      Error("boom", "boom text", L(17)),
      Function(<<Var("x", L(31))>>, PrintTerm(VarTerm("x", L(32)), L(33)),
               L(30)) }

\* Fully reduced terms: the atoms, the tuples of atoms and tuples of those.
ValuePrograms ==
    Atoms
    \cup { Tuple(a, b, L(140)) : a \in Atoms, b \in Atoms }
    \cup { Tuple(Tuple(a, b, L(141)), b, L(140)) : a \in Atoms, b \in Atoms }

\* (fn(b) { let c = 3; c })(2)
Inner ==
    Call(Function(<<Var("b", L(151))>>,
                  Let(Var("c", L(152)), IntTerm(3, L(153)),
                      VarTerm("c", L(154)), L(152)),
                  L(150)),
         <<IntTerm(2, L(155))>>, L(156))

\* let _ = (fn(b) { let c = 3; c })(2); name
LeakTop(name) == Let(Var("_", L(157)), Inner, VarTerm(name, L(158)), L(157))

\* (fn(a) { let _ = (fn(b) { let c = 3; c })(2); name })(1)
Leak(name) ==
    Call(Function(<<Var("a", L(160))>>, LeakTop(name), L(159)),
         <<IntTerm(1, L(161))>>, L(162))

LeakPrograms ==
    { LeakTop(name) : name \in {"a", "b", "c"} }
    \cup { Leak(name) : name \in {"a", "b", "c"} }

\* if c { print(1) } else { print(2) }
IfPrograms == { If(c, P(1), P(2), L(1)) : c \in Operands }

\* a op print(b) on two Bool literals.
Logic(a, op, b) ==
    Binary(Bool(a, L(171)), op, PrintTerm(Bool(b, L(173)), L(172)), L(170))

LogicPrograms ==
    { Logic(a, op, b) : a \in BOOLEAN, op \in {"And", "Or"}, b \in BOOLEAN }

\* The locations of the test of main.rs: start = end, the default filename.
T(n) == Location(n, n, "")

\* tests::factorial of main.rs, for any argument:
\* let factorial = fn(n) { if n <= 1 { 1 } else { n * factorial(n - 1) } };
\* factorial(n)
Factorial(n) ==
    Let(Var("factorial", T(0)),
        Function(<<Var("n", T(1))>>,
                 If(Binary(VarTerm("n", T(2)), "Lte", IntTerm(1, T(3)), T(4)),
                    IntTerm(1, T(5)),
                    Binary(VarTerm("n", T(6)), "Mul",
                           Call(VarTerm("factorial", T(7)),
                                <<Binary(VarTerm("n", T(8)), "Sub",
                                         IntTerm(1, T(9)), T(10))>>,
                                T(11)),
                           T(12)),
                    T(13)),
                 T(14)),
        Call(VarTerm("factorial", T(15)), <<IntTerm(n, T(16))>>, T(17)),
        T(18))

FactorialPrograms == { Factorial(n) : n \in 0..MaxN }

\* let f = fn() { f() }; f()
Loop ==
    Let(Var("f", L(1)),
        Function(<<>>, Call(VarTerm("f", L(4)), <<>>, L(3)), L(2)),
        Call(VarTerm("f", L(6)), <<>>, L(5)),
        L(1))

Programs ==
    BinaryPrograms \cup ArithPrograms \cup LetPrograms \cup ProjPrograms
    \cup CallPrograms \cup ScopePrograms \cup FactorialPrograms \cup {Loop}
    \cup PrintPrograms \cup OrderPrograms \cup ValuePrograms
    \cup LeakPrograms \cup IfPrograms \cup LogicPrograms

\* ------------------------------------------------- the state machine ----
VARIABLES
    env,      \* the scope chain the caller's handle reaches, root first
    out,      \* the lines written to stdout
    status,   \* "ok", or how the host process died
    frames,   \* Env::extend calls made by the evaluator
    sets,     \* Env::set calls made by the caller
    pc,       \* "ready" before Evaluator::eval is called, "done" after
    term,     \* the term handed to Evaluator::eval
    start,    \* the scope chain when Evaluator::eval was called
    result    \* the Term Evaluator::eval returned

vars == <<env, out, status, frames, sets, pc, term, start, result>>

\* No term yet.
Nothing == [kind |-> "Nothing"]

\* Names and terms the caller binds before the evaluation.
SetNames == {"x"}
SetTerms == {IntTerm(7, L(90)), IntTerm(8, L(91))}

\* main: `let mut env = Default::default()`.
Init ==
    /\ env = EnvNew
    /\ out = <<>>
    /\ status = "ok"
    /\ frames = 0
    /\ sets = 0
    /\ pc = "ready"
    /\ term = Nothing
    /\ start = EnvNew
    /\ result = Nothing

\* The caller binds a name in the frame it holds (Env::set).
EnvSet(name, t) ==
    /\ pc = "ready"
    /\ sets < MaxSets
    /\ env' = set(env, name, t)
    /\ sets' = sets + 1
    /\ UNCHANGED <<out, status, frames, pc, term, start, result>>

\* Evaluator::eval(&mut env, term), as main and the tests call it.
Eval(t) ==
    /\ pc = "ready"
    /\ LET r == eval(Machine(env, out, status, 0, frames), t) IN
        /\ env' = r.st.env
        /\ out' = r.st.out
        /\ status' = r.st.status
        /\ frames' = r.st.frames
        /\ result' = r.term
    /\ term' = t
    /\ start' = env
    /\ pc' = "done"
    /\ UNCHANGED sets

\* The caller evaluates one program.
Run == pc = "ready" /\ \E t \in Programs : Eval(t)

Next ==
    \/ \E name \in SetNames, t \in SetTerms : EnvSet(name, t)
    \/ Run

Spec == Init /\ [][Next]_vars

\* ---------------------------------------------------------- the claims ----
\* The machine Evaluator::eval was called on.
Start == Machine(start, <<>>, "ok", 0, 0)

Done == pc = "done"

\* A caller or the evaluator wrote to the frame the handle points at.
KeepsBindings ==
    \A n \in DOMAIN env[Len(env)] :
        /\ n \in DOMAIN env'[Len(env')]
        /\ env'[Len(env')][n] = env[Len(env)][n]

\* let n = v1; let n = v2; n  yields the term of the first write to n: the
\* one the frame held before, else what v1 evaluated to.
RebindReadsFirst ==
    \A n \in LetNames \ {"_"}, v1 \in LetValues, v2 \in LetValues :
        (Done /\ term = LetLet(n, v1, n, v2, n)) =>
            /\ status = "ok"
            /\ result = IF n \in DOMAIN start[1] THEN start[1][n]
                        ELSE eval(Start, v1).term
            /\ get(env, n) = [some |-> TRUE, term |-> result]

\* C1: first write wins within one frame.  No step (an Env::set by the
\* caller, or an evaluation with its Lets) changes the term of a name the
\* frame already holds, a later lookup reads the first term written, and
\* `let x = 1; let x = 2; x` on a new environment yields Int 1.
C1_FirstWriteWins ==
    [][ /\ KeepsBindings
        /\ RebindReadsFirst'
        /\ (Done' /\ start' = EnvNew
              /\ term' = LetLet("x", IntTerm(1, L(40)), "x", IntTerm(2, L(41)), "x"))
           => result' = IntTerm(1, L(40)) ]_vars

\* Two Env::set calls on x, then let x = 1; let x = 2; x: the frame still
\* holds the term of the first call.
C1_Witness ==
    /\ Done
    /\ sets = 2
    /\ term = LetLet("x", IntTerm(1, L(40)), "x", IntTerm(2, L(41)), "x")
    /\ result = IntTerm(7, L(90))

\* The Error of eval_var for a name no frame of the chain holds.
Undefined(name, location) ==
    Error("Undefined variable", "Undefined variable \"" \o name \o "\"",
          location)

\* C2: dynamic scoping.  The body of a called function reads its free
\* variables from the chain of the call site: in
\* `let x = a; let f = fn() { x }; let g = fn(x) { f() }; g(b)` the x of f is
\* the b bound by the call of g, not the x visible where f was written; a free
\* variable read inside a call is the nearest binding of the caller's chain;
\* and a function returned from a call does not see that call's parameter:
\* `let mk = fn(p) { fn() { p } }; let h = mk(a); h()` is an Undefined
\* variable Error at the p of the inner body.
C2_DynamicScoping ==
    Done =>
        /\ \A a \in ScopeValues, b \in ScopeValues :
              term = Shadow(a, b) => status = "ok" /\ result = b
        /\ \A a \in ScopeValues :
              term = Escape(a) =>
                  status = "ok" /\ result = Undefined("p", L(75))
        /\ \A name \in {"x", "p"} :
              term = Free(name) =>
                  /\ status = "ok"
                  /\ result = IF get(start, name).some
                              THEN get(start, name).term
                              ELSE Undefined(name, L(73))

\* g(2) run where x was 1 at the definition of f: f reads 2.
C2_Witness ==
    /\ Done
    /\ start = EnvNew
    /\ term = Shadow(IntTerm(1, L(82)), IntTerm(2, L(83)))
    /\ result = IntTerm(2, L(83))
    /\ frames = 2

\* The i-th byte of the 32-bit two's-complement pattern of a, and the signed
\* value of four bytes.
ByteOf(a, i) == (a \div (2^(8 * i))) % 2^8
FromBytes(b3, b2, b1, b0) ==
    (IF b3 >= 2^7 THEN b3 - 2^8 ELSE b3) * 2^24 + b2 * 2^16 + b1 * 2^8 + b0

\* a + b modulo 2^32 read as signed: byte by byte with carries.
Mod32Add(a, b) ==
    LET k0 == ByteOf(a, 0) + ByteOf(b, 0)
        k1 == ByteOf(a, 1) + ByteOf(b, 1) + k0 \div 2^8
        k2 == ByteOf(a, 2) + ByteOf(b, 2) + k1 \div 2^8
        k3 == ByteOf(a, 3) + ByteOf(b, 3) + k2 \div 2^8
    IN  FromBytes(k3 % 2^8, k2 % 2^8, k1 % 2^8, k0 % 2^8)

\* a - b modulo 2^32 read as signed: byte by byte with borrows.
Mod32Sub(a, b) ==
    LET k0 == ByteOf(a, 0) - ByteOf(b, 0)
        k1 == ByteOf(a, 1) - ByteOf(b, 1) + k0 \div 2^8
        k2 == ByteOf(a, 2) - ByteOf(b, 2) + k1 \div 2^8
        k3 == ByteOf(a, 3) - ByteOf(b, 3) + k2 \div 2^8
    IN  FromBytes(k3 % 2^8, k2 % 2^8, k1 % 2^8, k0 % 2^8)

\* a * b modulo 2^32 read as signed: the low four columns of the long
\* multiplication of the bytes.
Mod32Mul(a, b) ==
    LET c0 == ByteOf(a, 0) * ByteOf(b, 0)
        c1 == ByteOf(a, 0) * ByteOf(b, 1) + ByteOf(a, 1) * ByteOf(b, 0)
        c2 == ByteOf(a, 0) * ByteOf(b, 2) + ByteOf(a, 1) * ByteOf(b, 1)
                + ByteOf(a, 2) * ByteOf(b, 0)
        c3 == ByteOf(a, 0) * ByteOf(b, 3) + ByteOf(a, 1) * ByteOf(b, 2)
                + ByteOf(a, 2) * ByteOf(b, 1) + ByteOf(a, 3) * ByteOf(b, 0)
        k1 == c1 + c0 \div 2^8
        k2 == c2 + k1 \div 2^8
        k3 == c3 + k2 \div 2^8
    IN  FromBytes(k3 % 2^8, k2 % 2^8, k1 % 2^8, c0 % 2^8)

\* The exact result fits i32.
SumFits(a, b) ==
    IF b >= 0 THEN a <= I32Max - b ELSE a >= I32Min - b
DifferenceFits(a, b) ==
    IF b >= 0 THEN a >= I32Min + b ELSE a <= I32Max + b
ProductFits(a, b) ==
    \/ a = 0 \/ b = 0 \/ a = 1 \/ b = 1
    \/ /\ a # I32Min /\ b # I32Min
       /\ (IF a < 0 THEN -a ELSE a)
             <= I32Max \div (IF b < 0 THEN -b ELSE b)

\* |r| < |b|, without leaving i32.
SmallerThan(r, b) == IF b > 0 THEN -b < r /\ r < b ELSE b < r /\ b < -r

\* r is zero or has the sign of a.
SignOf(r, a) == r = 0 \/ (r > 0 /\ a > 0) \/ (r < 0 /\ a < 0)

\* q is a / b rounded toward zero: what is left of a has the sign of a and
\* is smaller than b.
IsQuotient(a, b, q) ==
    IF a = I32Min /\ b = -1 THEN q = I32Min
    ELSE SmallerThan(a - q * b, b) /\ SignOf(a - q * b, a)

\* r is the remainder of that division: a - r is a multiple of b.
IsRemainder(a, b, r) ==
    IF a = I32Min /\ b = -1 THEN r = 0
    ELSE /\ SmallerThan(r, b)
         /\ SignOf(r, a)
         /\ IF b = I32Min THEN a - r \in {0, I32Min}
            ELSE (a - r) % (IF b > 0 THEN b ELSE -b) = 0

\* An arithmetic operator applied to two Int literals.
IsArith(t) ==
    /\ t.kind = "Binary"
    /\ t.op \in ArithOp
    /\ t.lhs.kind = "Int"
    /\ t.rhs.kind = "Int"

\* The program a op b on two Int literals.
Arith(a, op, b) == Binary(IntTerm(a, L(2)), op, IntTerm(b, L(3)), L(1))

\* C3: on Int operands Add, Sub and Mul yield the Int of the result modulo
\* 2^32 read as signed (2147483647 + 1 = -2147483648, -1 - 2147483647 =
\* -2147483648, 2 * 2147483647 = -2); Div and Rem by a non-zero divisor yield
\* an Int and the host does not fail, Div rounds toward zero, Rem has the sign
\* of the dividend, and -2147483648 / -1 = -2147483648, -2147483648 % -1 = 0.
C3_WrappingArithmetic ==
    (Done /\ IsArith(term)) =>
        LET a == term.lhs.value
            b == term.rhs.value
            op == term.op
        IN  /\ op = "Add" =>
                  /\ result = IntTerm(Mod32Add(a, b), term.location)
                  /\ SumFits(a, b) => result.value = a + b
            /\ op = "Sub" =>
                  /\ result = IntTerm(Mod32Sub(a, b), term.location)
                  /\ DifferenceFits(a, b) => result.value = a - b
            /\ op = "Mul" =>
                  /\ result = IntTerm(Mod32Mul(a, b), term.location)
                  /\ ProductFits(a, b) => result.value = a * b
            /\ (op = "Div" /\ b # 0) =>
                  /\ status = "ok"
                  /\ result.kind = "Int"
                  /\ IsQuotient(a, b, result.value)
            /\ (op = "Rem" /\ b # 0) =>
                  /\ status = "ok"
                  /\ result.kind = "Int"
                  /\ IsRemainder(a, b, result.value)
            /\ term = Arith(I32Max, "Add", 1) => result.value = I32Min
            /\ term = Arith(-1, "Sub", I32Max) => result.value = I32Min
            /\ term = Arith(2, "Mul", I32Max) => result.value = -2
            /\ term = Arith(I32Min, "Div", -1) => result.value = I32Min
            /\ term = Arith(I32Min, "Rem", -1) => result.value = 0
            /\ term = Arith(-7, "Div", 2) => result.value = -3
            /\ term = Arith(-7, "Rem", 2) => result.value = -1
            /\ term = Arith(7, "Rem", -2) => result.value = 1

\* 2147483647 + 1 was evaluated and wrapped.
C3_Witness ==
    /\ Done
    /\ term = Arith(I32Max, "Add", 1)
    /\ status = "ok"
    /\ result = IntTerm(I32Min, L(1))

\* The kinds of ast::Term.
TermKinds ==
    {"Error", "Int", "Str", "Call", "Binary", "Function", "Let", "If",
     "Print", "First", "Second", "Bool", "Tuple", "Var"}

\* An arithmetic operator applied to any two operands.
IsArithNode(t) == t.kind = "Binary" /\ t.op \in ArithOp

\* C4: a Div or Rem whose operands evaluate to an Int and to Int 0 returns no
\* Term, and so no Error term: the host process panics.  It is the only
\* arithmetic input that does so: when both operands of Add, Sub, Mul, Div or
\* Rem evaluate to Terms, the node returns a Term unless it is that division.
C4_DivisionByZeroIsFatal ==
    (Done /\ IsArithNode(term)) =>
        LET l == eval(Start, term.lhs) IN
        l.st.status = "ok" =>
            IF l.term.kind # "Int"
            THEN status = "ok" /\ result.kind \in TermKinds
            ELSE LET r == eval(l.st, term.rhs) IN
                 r.st.status = "ok" =>
                    IF /\ term.op \in {"Div", "Rem"}
                       /\ r.term.kind = "Int"
                       /\ r.term.value = 0
                    THEN /\ status = "panic"
                         /\ result = Aborted
                         /\ result.kind \notin TermKinds
                    ELSE status = "ok" /\ result.kind \in TermKinds

\* 7 / 0 was evaluated: the host panicked and no Term came back.
C4_Witness ==
    /\ Done
    /\ term = Arith(7, "Div", 0)
    /\ status = "panic"
    /\ result = Aborted

\* A Binary node of one of the operators ops whose left operand evaluates to
\* an Error returns exactly that Error and leaves the machine as the left
\* operand left it: nothing of the right operand was printed or bound.
ShortCircuits(ops) ==
    (Done /\ term.kind = "Binary" /\ term.op \in ops) =>
        LET l == eval(Start, term.lhs) IN
        (l.st.status = "ok" /\ l.term.kind = "Error") =>
            /\ status = "ok"
            /\ result = l.term
            /\ out = l.st.out
            /\ env = l.st.env

\* C5: each of the 13 binary operators short-circuits on an Error of its
\* left operand: the node's result is that Error and the right operand is not
\* evaluated.
C5_ErrorShortCircuit == ShortCircuits(BinaryOp)

\* The eleven handlers impl_binary_op! generates do short-circuit.
C5_TypedOperatorsShortCircuit == ShortCircuits(BinaryOp \ {"Eq", "Neq"})

\* Error == print(5) was evaluated: a Bool came back and 5 was printed.
C5_EqEvaluatesBoth ==
    /\ Done
    /\ term = Binary(Error("boom", "boom text", L(17)), "Eq",
                     PrintTerm(IntTerm(5, L(20)), L(19)), L(1))
    /\ result = Bool(FALSE, L(1))
    /\ out = <<"5">>

\* Two evaluated operands are the same term: the same kind, the same payload
\* and the same location.
SameTerm(a, b) ==
    /\ a.kind = b.kind
    /\ a.location.start = b.location.start
    /\ a.location.end = b.location.end
    /\ a.location.filename = b.location.filename
    /\ a = b

\* lhs == rhs on two literals.
EqOf(a, b) == Binary(a, "Eq", b, L(1))

\* C6: Eq and Neq compare the evaluated operands as whole terms, location
\* included: Eq yields true exactly when both have the same kind, payload and
\* location, so equal literals at different locations are unequal; Neq yields
\* the negation of Eq on the same operands; the Bool has the location of the
\* Binary node.
C6_EqComparesWholeTerms ==
    (Done /\ term.kind = "Binary" /\ term.op \in {"Eq", "Neq"}) =>
        LET l == eval(Start, term.lhs)
            r == eval(l.st, term.rhs)
            eq == eval(Start, Binary(term.lhs, "Eq", term.rhs, term.location))
        IN  /\ (l.st.status = "ok" /\ r.st.status = "ok") =>
                /\ status = "ok"
                /\ eq.term = Bool(SameTerm(l.term, r.term), term.location)
                /\ term.op = "Eq" => result = eq.term
                /\ term.op = "Neq" =>
                      result = Bool(~eq.term.value, term.location)
                /\ (/\ l.term.kind \in {"Int", "Bool", "Str"}
                    /\ r.term.kind = l.term.kind
                    /\ r.term.value = l.term.value
                    /\ r.term.location # l.term.location) =>
                      eq.term.value = FALSE
            /\ term = EqOf(IntTerm(1, L(10)), IntTerm(1, L(10))) =>
                  result = Bool(TRUE, L(1))
            /\ term = EqOf(IntTerm(1, L(10)), IntTerm(1, L(11))) =>
                  result = Bool(FALSE, L(1))
            /\ term = EqOf(IntTerm(1, L(10)),
                           IntTerm(1, Location(10, 11, "other.rinha"))) =>
                  result = Bool(FALSE, L(1))
            /\ term = EqOf(IntTerm(1, L(10)),
                           IntTerm(1, Location(10, 12, "main.rinha"))) =>
                  result = Bool(FALSE, L(1))

\* 1 == 1 on two literals at different locations was evaluated: false, at the
\* location of the Binary node.
C6_Witness ==
    /\ Done
    /\ term = EqOf(IntTerm(1, L(10)), IntTerm(1, L(11)))
    /\ result = Bool(FALSE, L(1))

\* C7: a Let named `_` evaluates its value and binds nothing: the machine
\* after the Let is the machine after the value followed by the rest, with
\* every frame as the value left it, so `let _ = v; _` is an Undefined
\* variable Error at the referencing Var unless `_` is a parameter of an
\* enclosing call (eval_call does store a parameter named `_`).
C7_DiscardBinding ==
    Done =>
        /\ (term.kind = "Let" /\ term.name.text = "_") =>
              LET value == eval(Start, term.value)
                  next == eval(value.st, term.next)
              IN  /\ value.st.env = start
                  /\ status = "ok"
                  /\ result = next.term
                  /\ out = next.st.out
                  /\ env = next.st.env
                  /\ get(env, "_") = [some |-> FALSE]
        /\ \A v \in LetValues, n \in LetNames :
              term = LetOne("_", v, n) =>
                  /\ env = start
                  /\ out = eval(Start, v).st.out
                  /\ result = IF get(start, n).some THEN get(start, n).term
                              ELSE Undefined(n, L(48))
        /\ \A v \in LetValues :
              term = LetOne("_", v, "_") => result = Undefined("_", L(48))
        /\ \A a \in LetValues, v \in LetValues :
              term = DiscardParam(a, v) =>
                  /\ result = eval(Start, a).term
                  /\ env = start

\* let _ = print(3); _ was evaluated: 3 was printed, nothing was bound and
\* the reference is undefined.
C7_Witness ==
    /\ Done
    /\ term = LetOne("_", PrintTerm(IntTerm(3, L(43)), L(42)), "_")
    /\ out = <<"3">>
    /\ env = start
    /\ result = Undefined("_", L(48))

\* A projection applied to a tuple expression.
IsProjection(t) == t.kind \in {"First", "Second"} /\ t.value.kind = "Tuple"

\* first((a, b))
FirstOf(a, b) == First(Tuple(a, b, L(2)), L(1))

\* C8: first((a, b)) returns the term a evaluates to and second((a, b)) the
\* term b evaluates to, a being evaluated before b on the same machine, also
\* when the other component evaluates to an Error; each component is
\* evaluated once: the output and the bindings are those of a followed by b.
C8_Projection ==
    (Done /\ IsProjection(term)) =>
        LET a == eval(Start, term.value.first)
            b == eval(a.st, term.value.second)
        IN  /\ (a.st.status = "ok" /\ b.st.status = "ok") =>
                /\ status = "ok"
                /\ term.kind = "First" => result = a.term
                /\ term.kind = "Second" => result = b.term
                /\ a.st.env = start =>
                      b.term = eval(Start, term.value.second).term
                /\ out = b.st.out
                /\ env = b.st.env
            /\ term = FirstOf(PrintTerm(IntTerm(5, L(20)), L(19)),
                              PrintTerm(IntTerm(5, L(20)), L(19))) =>
                  out = <<"5", "5">>

\* first((1, Error)) was evaluated: the Int came back, not the Error.
C8_Witness ==
    /\ Done
    /\ term = FirstOf(IntTerm(1, L(10)), Error("boom", "boom text", L(17)))
    /\ result = IntTerm(1, L(10))

\* The decimal numerals of the small counts.
Numeral(n) == <<"0", "1", "2", "3", "4", "5", "6", "7", "8", "9">>[n + 1]

\* print(x) of one parameter called on (print(5), 1).
TwoForOne ==
    Call(Function(<<Var("x", L(53))>>, PrintTerm(VarTerm("x", L(55)), L(54)),
                  L(50)),
         <<PrintTerm(IntTerm(5, L(63)), L(62)), IntTerm(1, L(60))>>, L(49))

\* C9: a Call whose callee evaluates to a Function of p parameters and that
\* has k # p arguments yields the Error "Argument count mismatch" with the
\* text "Expected p arguments, found k" at the location of the Call; the
\* machine is as the callee left it: no argument was evaluated (nothing
\* printed, nothing bound, no panic of an argument), no frame was created and
\* the body was not evaluated.
C9_ArityMismatch ==
    (Done /\ term.kind = "Call") =>
        LET f == eval(Start, term.callee)
            p == Len(f.term.parameters)
            k == Len(term.arguments)
        IN  /\ (f.st.status = "ok" /\ f.term.kind = "Function" /\ p # k) =>
                /\ status = "ok"
                /\ result.kind = "Error"
                /\ result.message = "Argument count mismatch"
                /\ result.full_text =
                      "Expected " \o Numeral(p) \o " arguments, found "
                          \o Numeral(k)
                /\ result.location = term.location
                /\ out = f.st.out
                /\ env = f.st.env
                /\ frames = f.st.frames
            /\ term = TwoForOne =>
                  /\ result = Error("Argument count mismatch",
                                    "Expected 1 arguments, found 2", L(49))
                  /\ out = <<>>

\* A function of one parameter was called with two arguments, the first a
\* print: the Error came back and nothing was printed.
C9_Witness ==
    /\ Done
    /\ term = TwoForOne
    /\ result.kind = "Error"
    /\ result.full_text = "Expected 1 arguments, found 2"
    /\ out = <<>>
    /\ frames = 0

\* n!
RECURSIVE Fact(_)
Fact(n) == IF n <= 1 THEN 1 ELSE n * Fact(n - 1)

\* C10: the factorial program of tests::factorial terminates for each small
\* n >= 0 and yields Int n!, 24 for n = 4, at the location of the literal 1
\* for n <= 1 and of the Mul node for n >= 2; every call made a frame of its
\* own (n of them, one for n = 0), no frame outlives its call, and the
\* caller's frame gained factorial and no n.
C10_Factorial ==
    \A n \in 0..MaxN :
        (Done /\ term = Factorial(n)) =>
            /\ status = "ok"
            /\ result = IF n <= 1 THEN IntTerm(1, T(5))
                        ELSE IntTerm(Fact(n), T(12))
            /\ n = 4 => result = IntTerm(24, T(12))
            /\ frames = IF n = 0 THEN 1 ELSE n
            /\ Len(env) = 1
            /\ DOMAIN env[1] = DOMAIN start[1] \cup {"factorial"}
            /\ out = <<>>

\* factorial(4) was evaluated from the empty root environment: Int 24 at the
\* Mul node, after four calls.
C10_Witness ==
    /\ Done
    /\ start = EnvNew
    /\ term = Factorial(4)
    /\ result = IntTerm(24, T(12))
    /\ frames = 4

\* The line println!("{value}") writes for an Int, a Str or a Bool.
Line(t) ==
    CASE t.kind = "Int" -> Numeral(t.value)
      [] t.kind = "Str" -> t.value
      [] t.kind = "Bool" -> IF t.value THEN "true" ELSE "false"

\* print((1, 2))
PrintOfTuple ==
    PrintTerm(Tuple(IntTerm(1, L(28)), IntTerm(2, L(29)), L(27)), L(1))

\* C11: a Print whose operand evaluates to an Int, Str or Bool appends exactly
\* one line, the text of the value, and returns the evaluated operand; for a
\* Function it appends exactly the line <function> and returns the Function;
\* for an Error it returns the Error and appends nothing; for a Tuple it
\* returns an Error with the text "The term is not a first class value" at the
\* location of the Tuple and appends nothing.
C11_Print ==
    (Done /\ term.kind = "Print") =>
        LET v == eval(Start, term.value) IN
        v.st.status = "ok" =>
            /\ status = "ok"
            /\ env = v.st.env
            /\ v.term.kind \in {"Int", "Str", "Bool"} =>
                  result = v.term /\ out = Append(v.st.out, Line(v.term))
            /\ v.term.kind = "Function" =>
                  result = v.term /\ out = Append(v.st.out, "<function>")
            /\ v.term.kind = "Error" => result = v.term /\ out = v.st.out
            /\ v.term.kind = "Tuple" =>
                  /\ result = Error("Unexpected term",
                                    "The term is not a first class value",
                                    v.term.location)
                  /\ out = v.st.out
            /\ v.term.kind \in {"Int", "Str", "Bool", "Function", "Error",
                                "Tuple"}

\* print((1, 2)) was evaluated: an Error at the Tuple, nothing printed.
C11_Witness ==
    /\ Done
    /\ term = PrintOfTuple
    /\ result = Error("Unexpected term", "The term is not a first class value",
                      L(27))
    /\ out = <<>>

\* a is an initial segment of b.
IsPrefix(a, b) == Len(a) <= Len(b) /\ SubSeq(b, 1, Len(a)) = a

\* The sub-term a node evaluates first.
Leading(t) ==
    CASE t.kind = "Let" -> t.value
      [] t.kind = "Binary" -> t.lhs
      [] t.kind = "Tuple" -> t.first
      [] t.kind = "Call" -> t.callee
      [] t.kind = "If" -> t.condition
      [] t.kind \in {"Print", "First", "Second"} -> t.value

\* The evaluation run on a sink that already holds a line.
After(line) == eval(Machine(start, <<line>>, "ok", 0, 0), term)

\* C12: the sink is append-only and holds the lines in evaluation order.  An
\* evaluation leaves the lines already on the sink in place and adds its own
\* after them; the lines of the sub-term a node evaluates first (the value of
\* a Let, the left operand, the first component, the callee, the condition,
\* the operand of a Print) come first; Let prints value then next, Binary
\* left then right, Tuple first then second, Call callee, arguments left to
\* right, then body, If condition then the chosen branch only, and Print its
\* own line after its operand's.
C12_OutputOrder ==
    Done =>
        /\ After("0").st.out = <<"0">> \o out
        /\ After("0").term = result
        /\ term.kind \in {"Let", "Binary", "Tuple", "Call", "If", "Print",
                          "First", "Second"} =>
              IsPrefix(eval(Start, Leading(term)).st.out, out)
        /\ term = OrderLet => out = <<"1", "2">>
        /\ \A op \in {"Add", "Eq", "Lt"} :
              term = OrderBinary(op) => out = <<"1", "2">>
        /\ term = OrderTuple => out = <<"1", "2">>
        /\ term = OrderCall => out = <<"1", "2", "3", "4">>
        /\ term = OrderIf(TRUE) => out = <<"true", "1">>
        /\ term = OrderIf(FALSE) => out = <<"false", "2">>
        /\ term = OrderPrint => out = <<"1", "2">>

\* The call whose callee, arguments and body all print was evaluated.
C12_Witness ==
    /\ Done
    /\ term = OrderCall
    /\ out = <<"1", "2", "3", "4">>

\* A fully reduced term: an Int, Str, Bool, Function or Error, or a Tuple of
\* fully reduced terms.
RECURSIVE IsValue(_)
IsValue(t) ==
    \/ t.kind \in {"Int", "Str", "Bool", "Function", "Error"}
    \/ t.kind = "Tuple" /\ IsValue(t.first) /\ IsValue(t.second)

\* The payload and the location of two terms of a kind, field by field.
SameFields(a, b) ==
    /\ DOMAIN a = DOMAIN b
    /\ \A f \in DOMAIN a : a[f] = b[f]

\* C13: eval is idempotent on values.  In every environment, evaluating a
\* fully reduced term returns the term itself, payload and location, prints
\* nothing, creates no frame and leaves every frame as it was; and what an
\* evaluation returns is such a term: evaluating it again changes nothing.
C13_ValuesEvaluateToThemselves ==
    Done =>
        /\ IsValue(term) =>
              /\ status = "ok"
              /\ result = term
              /\ SameFields(result, term)
              /\ out = <<>>
              /\ env = start
              /\ frames = 0
        /\ status = "ok" =>
              /\ IsValue(result)
              /\ eval(Machine(env, out, "ok", 0, frames), result)
                    = Ret(result, Machine(env, out, "ok", 0, frames))

\* The tuple (1, Error) was evaluated where x is bound: it came back as it
\* was.
C13_Witness ==
    /\ Done
    /\ sets > 0
    /\ term = Tuple(IntTerm(1, L(10)), Error("boom", "boom text", L(17)),
                    L(140))
    /\ result = term
    /\ env = start

\* C14: no write targets a parent frame.  After a Call the chain of the call
\* site is, frame by frame, what it was when the callee had been evaluated:
\* the parameters, the Lets of the arguments and the Lets of the body were
\* written to the frame of the call, which is gone, so none of their names is
\* visible to the caller afterwards, from the root or from inside a call.
C14_NoWriteToParent ==
    Done =>
        /\ (term.kind = "Call" /\ status = "ok") =>
              LET f == eval(Start, term.callee) IN
              /\ Len(env) = Len(f.st.env)
              /\ \A i \in 1..Len(env) : env[i] = f.st.env[i]
        /\ \A name \in {"a", "b", "c"} :
              /\ term = LeakTop(name) =>
                    /\ result = Undefined(name, L(158))
                    /\ env = start
                    /\ frames = 1
              /\ term = Leak(name) =>
                    /\ result = IF name = "a" THEN IntTerm(1, L(161))
                                ELSE Undefined(name, L(158))
                    /\ env = start
                    /\ frames = 2

\* A call inside a call bound b and c; afterwards the caller, itself in a
\* call, reads c: undefined, and the root frame is as it was.
C14_Witness ==
    /\ Done
    /\ term = Leak("c")
    /\ result = Undefined("c", L(158))
    /\ frames = 2
    /\ env = start

\* The nodes that consume one sub-result and demand a kind of it.
Consumers == {"If", "Call", "First", "Second", "Print"}

\* The consumer accepts a sub-result of this kind.
Accepts(consumer, kind) ==
    CASE consumer = "If" -> kind = "Bool"
      [] consumer = "Call" -> kind = "Function"
      [] consumer \in {"First", "Second"} -> kind = "Tuple"
      [] consumer = "Print" -> kind \in {"Int", "Str", "Bool", "Function"}

\* The text of the consumer's complaint.
Complaint(consumer) ==
    CASE consumer = "If" -> "Expected condition of type \"Bool\""
      [] consumer = "Call" -> "Expected function body or reference"
      [] consumer = "First" -> "The first function expects a tuple"
      [] consumer = "Second" -> "The second function expects a tuple"
      [] consumer = "Print" -> "The term is not a first class value"

\* if x { print(1) } else { print(2) }
IfOfVar == If(VarTerm("x", L(18)), P(1), P(2), L(1))

\* C15: If (on its condition), Call (on its callee), First, Second and Print
\* return an Error sub-result as it is, message, text and location; for a
\* sub-result of a kind they do not accept they return a new Error at the
\* location of the evaluated sub-result, not at their own; in both cases the
\* machine is as the sub-term left it: no branch, no argument was evaluated.
C15_ErrorsThroughConsumers ==
    (Done /\ term.kind \in Consumers) =>
        LET v == eval(Start, Leading(term)) IN
        /\ (v.st.status = "ok" /\ v.term.kind = "Error") =>
              /\ status = "ok"
              /\ result = v.term
              /\ result.message = v.term.message
              /\ result.full_text = v.term.full_text
              /\ result.location = v.term.location
              /\ out = v.st.out
              /\ env = v.st.env
              /\ frames = v.st.frames
        /\ (/\ v.st.status = "ok"
            /\ v.term.kind # "Error"
            /\ ~Accepts(term.kind, v.term.kind)) =>
              /\ status = "ok"
              /\ result = Error("Unexpected term", Complaint(term.kind),
                                v.term.location)
              /\ out = v.st.out
              /\ env = v.st.env
              /\ frames = v.st.frames
        /\ (term = IfOfVar /\ get(start, "x").some) =>
              result.location = get(start, "x").term.location

\* if x {..} else {..} was evaluated where x is the Int bound at 90..91: the
\* Error is at the Int, not at the If or at the Var, and no branch printed.
C15_Witness ==
    /\ Done
    /\ term = IfOfVar
    /\ result = Error("Unexpected term", "Expected condition of type \"Bool\"",
                      L(90))
    /\ out = <<>>

\* The kind a typed operator expects of both operands.
Expects(op) == IF op \in {"And", "Or"} THEN "Bool" ELSE "Int"

\* The text naming the expected kind.
ExpectedText(op) ==
    IF op \in {"And", "Or"} THEN "Expected operand of type \"Bool\""
    ELSE "Expected operand of type \"Int\""

\* 1 + true
OnePlusTrue ==
    Binary(IntTerm(1, L(10)), "Add", Bool(TRUE, L(14)), L(1))

\* C16: the typed operators check their operands.  A left operand that
\* evaluates to a term that is neither an Error nor of the expected kind (Int
\* for Add, Sub, Mul, Div, Rem, Lt, Gt, Lte, Gte; Bool for And, Or) gives the
\* Error "Unexpected left operand" naming that kind, at the evaluated left
\* operand, and the right operand is not evaluated; a left operand of the
\* expected kind and such a right operand give "Unexpected right operand" at
\* the evaluated right operand; 1 + true gives the text
\* Expected operand of type "Int".
C16_TypedOperands ==
    (Done /\ term.kind = "Binary" /\ term.op \notin {"Eq", "Neq"}) =>
        LET l == eval(Start, term.lhs)
            r == eval(l.st, term.rhs)
        IN  /\ (/\ l.st.status = "ok"
                /\ l.term.kind \notin {"Error", Expects(term.op)}) =>
                  /\ status = "ok"
                  /\ result = Error("Unexpected left operand",
                                    ExpectedText(term.op), l.term.location)
                  /\ out = l.st.out
                  /\ env = l.st.env
            /\ (/\ l.st.status = "ok"
                /\ l.term.kind = Expects(term.op)
                /\ r.st.status = "ok"
                /\ r.term.kind \notin {"Error", Expects(term.op)}) =>
                  /\ status = "ok"
                  /\ result = Error("Unexpected right operand",
                                    ExpectedText(term.op), r.term.location)
                  /\ out = r.st.out
                  /\ env = r.st.env
            /\ term = OnePlusTrue =>
                  result.full_text = "Expected operand of type \"Int\""

\* 1 + true was evaluated: the Error names Int and sits at the `true`.
C16_Witness ==
    /\ Done
    /\ term = OnePlusTrue
    /\ result = Error("Unexpected right operand",
                      "Expected operand of type \"Int\"", L(14))

\* C17: And and Or evaluate both operands.  Whenever the left operand
\* evaluates to a Bool, true or false, the right operand is evaluated: what it
\* prints is printed, what it binds is bound, its Error (or its panic) is the
\* outcome, and only for a Bool on the right is the result the Bool of the
\* logical and/or at the location of the Binary node.  true || x with x
\* undefined is the Undefined variable Error; false && 1 is an Unexpected
\* right operand Error.
C17_NoBooleanShortCircuit ==
    (Done /\ term.kind = "Binary" /\ term.op \in {"And", "Or"}) =>
        LET l == eval(Start, term.lhs)
            r == eval(l.st, term.rhs)
        IN  /\ (l.st.status = "ok" /\ l.term.kind = "Bool") =>
                /\ status = r.st.status
                /\ out = r.st.out
                /\ env = r.st.env
                /\ (status = "ok" /\ r.term.kind = "Error") =>
                      result = r.term
                /\ (status = "ok" /\ r.term.kind = "Bool") =>
                      result = Bool(IF term.op = "And"
                                    THEN l.term.value /\ r.term.value
                                    ELSE l.term.value \/ r.term.value,
                                    term.location)
            /\ (/\ term = Binary(Bool(TRUE, L(14)), "Or", VarTerm("x", L(18)),
                                 L(1))
                /\ start = EnvNew) =>
                  result = Undefined("x", L(18))
            /\ term = Binary(Bool(FALSE, L(15)), "And", IntTerm(1, L(10)),
                             L(1)) =>
                  result = Error("Unexpected right operand",
                                 "Expected operand of type \"Bool\"", L(10))
            /\ term = Logic(TRUE, "Or", FALSE) =>
                  out = <<"false">> /\ result = Bool(TRUE, L(170))
            /\ term = Logic(FALSE, "And", TRUE) =>
                  out = <<"true">> /\ result = Bool(FALSE, L(170))

\* true || print(false) was evaluated: false was printed, then true came
\* back.
C17_Witness ==
    /\ Done
    /\ term = Logic(TRUE, "Or", FALSE)
    /\ out = <<"false">>
    /\ result = Bool(TRUE, L(170))

\* fn(x, y) { (x, y) } and fn(x, x) { x }
PairFn ==
    Function(<<Var("x", L(53)), Var("y", L(56))>>,
             Tuple(VarTerm("x", L(58)), VarTerm("y", L(59)), L(57)), L(50))
TwiceFn ==
    Function(<<Var("x", L(53)), Var("x", L(56))>>, VarTerm("x", L(58)), L(50))

\* (fn(x, y) { (x, y) })(1, x)
LaterReadsEarlier ==
    Call(PairFn, <<IntTerm(1, L(60)), VarTerm("x", L(64))>>, L(49))

\* (fn(x, y) { (x, y) })(let y = 3; y, 2)
LetPreempts ==
    Call(PairFn,
         <<Let(Var("y", L(65)), IntTerm(3, L(66)), VarTerm("y", L(67)), L(65)),
           IntTerm(2, L(61))>>,
         L(49))

\* (fn(x, x) { x })(1, 2)
Duplicate == Call(TwiceFn, <<IntTerm(1, L(60)), IntTerm(2, L(61))>>, L(49))

\* A frame after a parameter was bound in it: the first write to a name.
Bound(frame, name, value) ==
    IF name \in DOMAIN frame THEN frame
    ELSE [n \in DOMAIN frame \cup {name} |->
             IF n = name THEN value ELSE frame[n]]

\* The machine with the frame of the call replaced.
WithFrame(st, frame) ==
    [st EXCEPT !.env = Append(SubSeq(@, 1, Len(@) - 1), frame)]

\* The frame of the call.
FrameOf(st) == st.env[Len(st.env)]

\* C18: the arguments of a call are evaluated in the new frame, each after
\* the parameters before it were bound there.  For a call of a function of
\* two parameters p1, p2 on arguments a1, a2: a1 is evaluated in the empty new
\* frame and bound to p1, a2 is evaluated in the frame that holds p1 and bound
\* to p2, each binding being the first write to its name, and the body runs
\* in that frame.  So in (fn(x, y) { (x, y) })(1, x) the argument x is the 1
\* just bound, whatever x is at the call site; a Let in an argument writes to
\* the new frame and keeps a later parameter of its name from being bound;
\* and of two parameters of one name the first argument is the one bound.
C18_ArgumentsInNewFrame ==
    Done =>
        /\ (/\ term.kind = "Call"
            /\ term.callee.kind = "Function"
            /\ Len(term.callee.parameters) = 2
            /\ Len(term.arguments) = 2) =>
              LET p == term.callee.parameters
                  new == [Start EXCEPT !.env = Append(@, <<>>)]
                  a1 == eval(new, term.arguments[1])
                  s1 == WithFrame(a1.st,
                                  Bound(FrameOf(a1.st), p[1].text, a1.term))
                  a2 == eval(s1, term.arguments[2])
                  s2 == WithFrame(a2.st,
                                  Bound(FrameOf(a2.st), p[2].text, a2.term))
                  body == eval(s2, term.callee.value)
              IN  (a1.st.status = "ok" /\ a2.st.status = "ok") =>
                      /\ status = "ok"
                      /\ result = body.term
                      /\ out = body.st.out
                      /\ frames = 1
        /\ term = LaterReadsEarlier =>
              result = Tuple(IntTerm(1, L(60)), IntTerm(1, L(60)), L(57))
        /\ term = LetPreempts =>
              result = Tuple(IntTerm(3, L(66)), IntTerm(3, L(66)), L(57))
        /\ term = Duplicate => result = IntTerm(1, L(60))

\* (fn(x, y) { (x, y) })(1, x) was evaluated where x is bound at the call
\* site: the second argument read the 1 bound to the parameter x.
C18_Witness ==
    /\ Done
    /\ get(start, "x").some
    /\ term = LaterReadsEarlier
    /\ result = Tuple(IntTerm(1, L(60)), IntTerm(1, L(60)), L(57))

====
